---- MODULE Spec2Model ----
(***************************************************************************)
(* Bot Process Supervisor of DSTG_Panel: backend/bot_manager.py            *)
(* (start_bot, stop_bot, get_bot_process_info, restore_bot_states), the    *)
(* endpoints of backend/main.py that call them, the background task        *)
(* monitor_bots, and the record store backend/database.py.                 *)
(*                                                                         *)
(* Every endpoint is an `async def` that calls the blocking supervisor     *)
(* functions directly, and monitor_bots is a task of the same event loop,  *)
(* so one handler runs at a time: pc is the position of that single        *)
(* control flow.  The points where a handler sleeps or waits on a          *)
(* subprocess are separate steps, so that bot processes can exit in        *)
(* between (ProcessExits).                                                  *)
(***************************************************************************)
EXTENDS Integers, Sequences, FiniteSets, TLC

NumBots == 2
MaxPid == 2
MaxEvents == 5
NoPid == 0
NoBot == 0

Bots == 1..NumBots
Pids == 1..MaxPid

Statuses == {"stopped", "starting", "installing", "running", "restarting",
             "error_startup", "error"}

VARIABLES
    rec,        \* bots table: rec[b] = [status, pid]; pid = NoPid is NULL
    owner,      \* OS process table: owner[p] = bot whose Popen child holds pid p, NoBot if no process
    cache,      \* keys of _cpu_percent_cache
    cfg_ok,     \* cfg_ok[b]: the bot's config.json parses as JSON
    pc,         \* position of the event loop's running handler
    cur,        \* bot id the running start_bot / stop_bot works on
    caller,     \* who called start_bot / stop_bot: "api", "restart", "monitor"
    child,      \* pid of the Popen child (start_bot) or of the psutil.Process (stop_bot)
    todo,       \* monitor_bots: bots of the snapshot list still to visit
    snap,       \* monitor_bots / restore_bot_states: the rows returned by get_all_bots()
    ret,        \* what the last start_bot / stop_bot call returned
    resp,       \* the response get_bot_status is about to send
    kids,       \* stop_bot: a descendant of the process it acted on is alive
    crashed,    \* history: bots whose recorded running process died, with only status and list queries since
    due,        \* history: crashed bots at the start of the current monitor tick, not yet restarted by it
    monStarts,  \* history: start_bot calls the current monitor tick made, per bot
    autoFailed, \* history: bots whose last automatic restart failed, status not set to running since
    fresh,      \* history: bots stored as running whose last start_bot launched a process, no status request since
    flagged,    \* history: bots for which the operator's last update request said auto_start = true
    restores,   \* history: completed runs of restore_bot_states in this start-up of the panel
    busy,       \* history: busy[b] = start / stop / restart / crash recovery calls for b begun and not over
    sent,       \* stop_bot: the signals it has sent to the process so far
    applied,    \* <<cpu_limit, memory_limit, niceness>> of the process.nice() call of the running handler
    opStopped,  \* history: bots whose last stop request returned true, no start or restart request served since
    events      \* requests, monitor ticks, panel restarts and process exits so far

ctl == <<pc, cur, caller, child, todo, snap, ret, resp, kids>>
hist == <<crashed, due, monStarts, autoFailed>>
vars == <<rec, owner, cache, cfg_ok, pc, cur, caller, child, todo, snap, ret,
          resp, kids, crashed, due, monStarts, autoFailed, fresh, flagged,
          restores, busy, sent, applied, opStopped, events>>
quiet == <<sent, applied, opStopped>>

NoRet == [op |-> "none", res |-> "none", msg |-> "none"]
NoSnap == [b \in Bots |-> [status |-> "stopped", pid |-> NoPid]]
NoResp == [bot |-> NoBot, status |-> "none", running |-> FALSE, cpu |-> "null",
           probed |-> FALSE, failed |-> FALSE]

\* process.nice() has not been called
NoApplied == <<>>

\* database.py create_bot: a new row has status 'stopped' and pid NULL
create_bot == [status |-> "stopped", pid |-> NoPid]

\* database.py get_all_bots: ORDER BY created_at DESC, newest bot first
get_all_bots == [i \in 1..NumBots |-> NumBots + 1 - i]

\* main.py 1055 and 1064: a status request samples the CPU of a bot only
\* when its stored status is running; the bots of f that r stores as running
fresh_of(r, f) == {b \in f : r[b].status = "running"}

\* database.py update_bot(bot_id, status=s)
update_status(r, b, s) == [r EXCEPT ![b].status = s]

\* database.py update_bot(bot_id, pid=p, status=s)
update_bot(r, b, s, p) == [r EXCEPT ![b] = [status |-> s, pid |-> p]]

\* database.py 180-181: the keyword arguments update_bot keeps
allowed_fields ==
    {"name", "bot_type", "start_file", "cpu_limit", "memory_limit", "status",
     "pid", "db_name", "git_repo_url", "git_branch"}

\* database.py 182 and 204-208: the columns the UPDATE of update_bot sets
\* when it is called with the keyword arguments kwargs
kept(kwargs) == kwargs \cap allowed_fields

\* the keyword arguments of the update_bot calls of bot_manager.py 163, 169,
\* and 243 / 252
start_kwargs == {"pid", "status", "started_at", "last_started_at"}
rollback_kwargs == {"pid", "status", "started_at", "last_crashed_at", "last_stopped_at"}
stop_kwargs == {"pid", "status", "started_at", "last_stopped_at"}

\* database.py update_bot raises when config.json exists and json.load fails
update_raises(b) == ~cfg_ok[b]

\* bot_manager.py is_process_running: some non-zombie process holds the pid
is_process_running(p) == p \in Pids /\ owner[p] # NoBot

LiveOf(b) == {p \in Pids : owner[p] = b}

Init ==
    /\ rec = [b \in Bots |-> create_bot]
    /\ owner = [p \in Pids |-> NoBot]
    /\ cache = {}
    /\ cfg_ok = [b \in Bots |-> TRUE]
    /\ pc = "boot1"
    /\ cur = NoBot
    /\ caller = "none"
    /\ child = NoPid
    /\ todo = <<>>
    /\ snap = NoSnap
    /\ ret = NoRet
    /\ resp = NoResp
    /\ kids = FALSE
    /\ crashed = {}
    /\ due = {}
    /\ monStarts = [b \in Bots |-> 0]
    /\ autoFailed = {}
    /\ fresh = {}
    /\ flagged = {}
    /\ restores = 0
    /\ busy = [b \in Bots |-> 0]
    /\ sent = <<>>
    /\ applied = NoApplied
    /\ opStopped = {}
    /\ events = 0

(***************************************************************************)
(* start_bot (bot_manager.py 15-194)                                       *)
(***************************************************************************)
\* A run holds at most MaxEvents requests, ticks, restarts and process exits;
\* the steps inside a handler are not counted.
event == events < MaxEvents /\ events' = events + 1
internal == events' = events

\* a handler that never yields holds the event loop
loop_free_mut == TRUE

\* the handlers are coroutines without an await (monitor_bots: none but its
\* sleep), so the event loop runs the next one when the running one is over
loop_free == pc = "idle"

\* a start / stop / restart / crash recovery for b begins, is over
begins(b) == busy' = IF b \in Bots THEN [busy EXCEPT ![b] = @ + 1] ELSE busy
ends(b) == busy' = IF b \in Bots THEN [busy EXCEPT ![b] = @ - 1] ELSE busy

\* a call has returned: its locals are gone
returned ==
    /\ cur' = NoBot
    /\ caller' = "none"
    /\ child' = NoPid
    /\ ret' = NoRet
    /\ kids' = FALSE
    /\ sent' = <<>>
    /\ applied' = NoApplied

StartRet(res, msg) == [op |-> "start", res |-> res, msg |-> msg]

\* An exception leaves start_bot: the record keeps what was written so far.
start_raises(r) ==
    /\ rec' = r
    /\ pc' = "start_done"
    /\ ret' = StartRet("raise", "exception")

\* return (ok, message)
start_returns(r, res, msg) ==
    /\ rec' = r
    /\ pc' = "start_done"
    /\ ret' = StartRet(res, msg)

\* What lines 26-42 meet on disk: everything in place, no start file, or a
\* filesystem / repository call that raises (these lines are outside any try).
Preps == {"ok", "missing", "raise"}

\* start_bot without the liveness half of its guard: every call launches
already_running_mut(r, b) == FALSE

\* the guard of lines 22-23
already_running(r, b) ==
    r[b].status = "running" /\ r[b].pid # NoPid /\ is_process_running(r[b].pid)

\* a missing start file that is recorded as a failed start
start_missing_mut(r0, b) == update_status(r0, b, "error_startup")

\* lines 41-42: the return comes before the first update_bot
start_missing(r0, b) == r0

\* a start that announces the installer at once
start_marks_mut(r0, b) == update_status(r0, b, "installing")

\* line 45: update_bot(bot_id, status='starting')
start_marks(r0, b) == update_status(r0, b, "starting")

\* lines 17-45, entered with the table r0 on behalf of `who`
start_enter(b, r0, who) ==
    /\ cur' = b
    /\ caller' = who
    /\ child' = NoPid
    /\ IF already_running(r0, b)
       THEN start_returns(r0, "ok", "none")
       ELSE \E prep \in Preps :
              CASE prep = "raise" -> start_raises(r0)
                [] prep = "missing" ->
                     start_returns(start_missing(r0, b), "fail", "no_start_file")
                [] OTHER ->
                     IF update_raises(b)
                     THEN start_raises(r0)
                     ELSE /\ rec' = start_marks(r0, b)
                          /\ pc' = "start_starting"
                          /\ ret' = NoRet

\* main.py start_bot_endpoint 952-964: 400 when the start file is missing,
\* otherwise start_bot
StartEndpoint(b) ==
    /\ event
    /\ loop_free
    /\ IF b \notin Bots
       THEN \* no row: the 404 of lines 953-955 (start_bot 17-19 answers alike)
            /\ cur' = b
            /\ caller' = "api"
            /\ child' = NoPid
            /\ start_returns(rec, "fail", "not_found")
            /\ UNCHANGED <<crashed, busy, opStopped>>
       ELSE \E exists \in BOOLEAN :
              IF exists
              THEN /\ start_enter(b, rec, "api")
                   /\ crashed' = {}
                   /\ begins(b)
                   /\ opStopped' = opStopped \ {b}
              ELSE UNCHANGED <<rec, pc, cur, caller, child, ret, crashed, busy, opStopped>>
    /\ UNCHANGED <<sent, applied>>
    /\ UNCHANGED <<owner, cache, cfg_ok, todo, snap, due, monStarts, autoFailed>>
    /\ UNCHANGED <<resp, kids, flagged, restores>>
    /\ fresh' = fresh_of(rec', fresh)

\* lines 48-50: requirements.txt exists, status 'installing', pip runs
StartInstall ==
    /\ internal
    /\ UNCHANGED quiet
    /\ pc = "start_starting"
    /\ IF update_raises(cur)
       THEN start_raises(rec)
       ELSE /\ rec' = update_status(rec, cur, "installing")
            /\ pc' = "start_installing"
            /\ ret' = NoRet
    /\ UNCHANGED <<owner, cache, cfg_ok, cur, caller, child, todo, snap, resp, kids>>
    /\ UNCHANGED hist
    /\ UNCHANGED <<flagged, restores, busy>>
    /\ fresh' = fresh_of(rec', fresh)

\* What pip does: exit 0, a non-zero exit, or no exit within 300 s
PipOutcomes == {"ok", "nonzero", "timeout"}

\* install_dependencies 258-297: True, or an exception
install_dependencies(pip) == IF pip = "ok" THEN "true" ELSE "raise"

\* an installer failure that returns without writing the status
install_failed_mut(r, b) == r

\* lines 54 and 58: update_bot(bot_id, status='error_startup')
install_failed(r, b) == update_status(r, b, "error_startup")

\* lines 51-59: the installer's result
StartInstallResult ==
    /\ internal
    /\ UNCHANGED quiet
    /\ pc = "start_installing"
    /\ \E pip \in PipOutcomes :
         IF install_dependencies(pip) = "true"
         THEN /\ pc' = "start_launch"
              /\ UNCHANGED <<rec, ret>>
         ELSE IF update_raises(cur)
              THEN start_raises(rec)
              ELSE start_returns(install_failed(rec, cur), "fail", "install")
    /\ UNCHANGED <<owner, cache, cfg_ok, cur, caller, child, todo, snap, resp, kids>>
    /\ UNCHANGED hist
    /\ UNCHANGED <<flagged, restores, busy>>
    /\ fresh' = fresh_of(rec', fresh)

\* an except branch that writes the status and leaves the pid column alone
start_except_mut(msg) ==
    start_returns(update_status(rec, cur, "error_startup"), "fail", msg)

\* the except branch of lines 191-194
start_except(msg) ==
    IF update_raises(cur)
    THEN start_raises(rec)
    ELSE start_returns(update_bot(rec, cur, "error_startup", NoPid), "fail", msg)

\* lines 61-124: subprocess.Popen, reached without requirements.txt or after
\* a successful install; Popen gives a child with an unused pid, or raises
StartPopen ==
    /\ internal
    /\ UNCHANGED quiet
    /\ pc \in {"start_starting", "start_launch"}
    /\ \/ \E p \in Pids :
            /\ owner[p] = NoBot
            /\ owner' = [owner EXCEPT ![p] = cur]
            /\ child' = p
            /\ pc' = "start_grace1"
            /\ UNCHANGED <<rec, ret>>
       \/ /\ start_except("exception")
          /\ UNCHANGED <<owner, child>>
    /\ UNCHANGED <<cache, cfg_ok, cur, caller, todo, snap, resp, kids>>
    /\ UNCHANGED hist
    /\ UNCHANGED <<flagged, restores, busy>>
    /\ fresh' = fresh_of(rec', fresh)

\* a poll whose result is never taken as an exit
exited_mut(p) == FALSE

\* process.poll() is not None
exited(p) == owner[p] # cur

MaxCpuLimit == 100
CpuLimits == 0..MaxCpuLimit
MemoryLimits == {128, 512}
Platforms == {"posix", "win32"}

\* buckets whose lower bounds belong to the bucket below
nice_value_mut(cpu_limit) ==
    IF cpu_limit <= 50 THEN 10 ELSE IF cpu_limit <= 75 THEN 5 ELSE 0

\* bot_manager.py 399-404
nice_value(cpu_limit) ==
    IF cpu_limit < 50 THEN 10 ELSE IF cpu_limit < 75 THEN 5 ELSE 0

\* bot_manager.py apply_resource_limits 370-410: process.nice(nice_value) is
\* called on a platform other than win32 when psutil.Process(pid) finds the
\* process; memory_limit_mb is read nowhere
apply_resource_limits(found, cpu_limit, memory_limit_mb, platform) ==
    IF platform # "win32" /\ found
    THEN <<cpu_limit, memory_limit_mb, nice_value(cpu_limit)>>
    ELSE NoApplied

\* database.py 38-39: the limits of a row created without limits
default_limits == [cpu |-> 50, mem |-> 512]

\* lines 129-163: after sleep(1.5); the panel runs on a POSIX host and the
\* rows have the default limits
StartPoll1 ==
    /\ internal
    /\ pc = "start_grace1"
    /\ IF exited(child)
       THEN /\ start_except("exit_code")
            /\ UNCHANGED <<crashed, autoFailed, applied>>
       ELSE /\ applied' = apply_resource_limits(is_process_running(child),
                               default_limits.cpu, default_limits.mem, "posix")
            /\ IF update_raises(cur)
               THEN /\ start_raises(rec)
                    /\ UNCHANGED <<crashed, autoFailed>>
               ELSE /\ rec' = update_bot(rec, cur, "running", child)
                    /\ pc' = "start_grace2"
                    /\ ret' = NoRet
                    /\ crashed' = crashed \ {cur}
                    /\ autoFailed' = autoFailed \ {cur}
    /\ UNCHANGED <<sent, opStopped>>
    /\ UNCHANGED <<owner, cache, cfg_ok, cur, caller, child, todo, snap, due, monStarts>>
    /\ UNCHANGED <<resp, kids>>
    /\ UNCHANGED <<flagged, restores, busy>>
    /\ fresh' = fresh_of(rec', fresh)

\* a second-window rollback that writes the status of the first window
rollback_mut(r, b) == update_bot(r, b, "error_startup", NoPid)

\* line 169: update_bot(bot_id, pid=None, status='stopped', ...)
rollback(r, b) == update_bot(r, b, "stopped", NoPid)

\* lines 165-190: after sleep(2.0)
StartPoll2 ==
    /\ internal
    /\ pc = "start_grace2"
    /\ IF exited(child)
       THEN /\ IF update_raises(cur)
               THEN /\ start_raises(rec)
               ELSE /\ start_returns(rollback(rec, cur), "fail", "exit_code_after_startup")
            /\ fresh' = fresh_of(rec', fresh)
       ELSE /\ start_returns(rec, "ok", "none")
            /\ fresh' = fresh \cup {cur}
    /\ UNCHANGED <<sent, applied, opStopped>>
    /\ UNCHANGED <<owner, cache, cfg_ok, cur, caller, child, todo, snap, resp, kids>>
    /\ UNCHANGED <<crashed, due, monStarts, autoFailed>>
    /\ UNCHANGED <<flagged, restores, busy>>

\* main.py monitor_bots 1984-1991: what the monitor does with start_bot's result
monitor_after_start(r) ==
    IF ret.res = "fail" /\ ~update_raises(cur)
    THEN update_status(r, cur, "error")
    ELSE r

\* start_bot hands its result to its caller: the start and restart endpoints
\* answer the request, monitor_bots goes on with its loop
StartDone ==
    /\ internal
    /\ pc = "start_done"
    /\ IF caller = "monitor"
       THEN /\ rec' = monitor_after_start(rec)
            /\ pc' = "mon_loop"
            /\ autoFailed' = IF ret.res = "ok" THEN autoFailed
                             ELSE autoFailed \cup {cur}
       ELSE /\ pc' = "idle"
            /\ UNCHANGED <<rec, autoFailed>>
    /\ returned
    /\ UNCHANGED <<owner, cache, cfg_ok, todo, snap, resp, crashed, due, monStarts>>
    /\ ends(cur)
    /\ UNCHANGED <<flagged, restores, opStopped>>

(***************************************************************************)
(* stop_bot (bot_manager.py 196-256)                                       *)
(***************************************************************************)
    /\ fresh' = fresh_of(rec', fresh)
StopRet(res) == [op |-> "stop", res |-> res, msg |-> "none"]

\* a stop that clears the pid and leaves the status
stop_marks_mut(r, b) == [r EXCEPT ![b].pid = NoPid]

\* lines 207, 243, 252: update_bot(bot_id, pid=None, status='stopped', ...)
stop_marks(r, b) == update_bot(r, b, "stopped", NoPid)

\* update_bot(pid=None, status='stopped'), evict the cache entry, return res;
\* when the update raises inside the try, the except branch (249-256) repeats
\* it and the exception leaves stop_bot
stop_clears(r, b, p, res) ==
    IF update_raises(b)
    THEN /\ rec' = r
         /\ cache' = cache
         /\ ret' = StopRet("raise")
    ELSE /\ rec' = stop_marks(r, b)
         /\ cache' = cache \ {p}
         /\ ret' = StopRet(res)

\* an id no row of the table has
UnknownBot == NumBots + 1

\* a guard that only knows the unknown bot: a record without pid goes on
no_process_mut(r, b) == b \notin Bots

\* lines 198-200: if not bot or not bot['pid']
no_process(r, b) == b \notin Bots \/ r[b].pid = NoPid

\* What children(recursive=True) lists and what terminate() does to them:
\* no descendant, descendants that end on the signal, a descendant that stays
Descendants == {"none", "gone", "stay"}

\* lines 198-225, entered with the table r0: no pid, a dead pid, or a live
\* process whose descendants and itself are sent terminate (children() and
\* terminate() can be denied)
stop_enter(b, r0, who) ==
    /\ cur' = b
    /\ caller' = who
    /\ IF no_process(r0, b)
       THEN /\ rec' = r0
            /\ ret' = StopRet("false")
            /\ pc' = "stop_done"
            /\ child' = NoPid
            /\ kids' = FALSE
            /\ sent' = <<>>
            /\ UNCHANGED cache
       ELSE IF ~is_process_running(r0[b].pid)
            THEN /\ stop_clears(r0, b, r0[b].pid, "true")
                 /\ pc' = "stop_done"
                 /\ child' = r0[b].pid
                 /\ kids' = FALSE
                 /\ sent' = <<>>
            ELSE \E denied \in BOOLEAN, d \in Descendants :
                   /\ child' = r0[b].pid
                   /\ IF denied
                      THEN /\ stop_clears(r0, b, r0[b].pid, "false")
                           /\ pc' = "stop_done"
                           /\ kids' = (d # "none")
                           /\ sent' = <<>>
                      ELSE /\ rec' = r0
                           /\ pc' = "stop_wait"
                           /\ ret' = NoRet
                           /\ kids' = (d = "stay")
                           /\ sent' = <<"terminate">>
                           /\ UNCHANGED cache

\* main.py stop_bot_endpoint 1034-1043
StopEndpoint(b) ==
    /\ event
    /\ loop_free
    /\ stop_enter(b, rec, "api")
    /\ crashed' = {}
    /\ begins(b)
    /\ UNCHANGED <<owner, cfg_ok, todo, snap, resp, due, monStarts, autoFailed>>
    /\ UNCHANGED <<flagged, restores, applied, opStopped>>
    /\ fresh' = fresh_of(rec', fresh)

\* What process.kill() leaves when stop_bot returns: the process is gone,
\* the signal is sent and the process has not ended yet, or kill() is denied
Kills == {"dead", "alive", "denied"}

\* lines 233-247: kill() is followed by no wait and no check, return True;
\* a denied kill() goes to the except branch, return False
kill_returns(k) == IF k = "denied" THEN "false" ELSE "true"

\* a wait that always runs into its timeout
wait_expired_mut(p) == TRUE

\* lines 229-230: process.wait(timeout=5) raises TimeoutExpired when the
\* process is still there after 5 s
wait_expired(p) == is_process_running(p)

\* lines 228-256: process.wait(timeout=5) is over; a process still there is
\* sent kill()
StopWait ==
    /\ internal
    /\ pc = "stop_wait"
    /\ pc' = "stop_done"
    /\ IF wait_expired(child)
       THEN \E k \in Kills :
              /\ stop_clears(rec, cur, child, kill_returns(k))
              /\ owner' = IF k = "dead" THEN [owner EXCEPT ![child] = NoBot]
                          ELSE owner
              /\ sent' = Append(sent, "kill")
       ELSE /\ stop_clears(rec, cur, child, "true")
            /\ UNCHANGED <<owner, sent>>
    /\ UNCHANGED <<applied, opStopped>>
    /\ UNCHANGED <<cfg_ok, cur, caller, child, todo, snap, resp, kids>>
    /\ UNCHANGED hist
    /\ UNCHANGED <<flagged, restores, busy>>
    /\ fresh' = fresh_of(rec', fresh)

\* stop_bot hands its result to its caller: the stop endpoint answers, the
\* restart endpoint (main.py 1016-1021) ignores the result and calls start_bot
StopDone ==
    /\ internal
    /\ pc = "stop_done"
    /\ IF caller = "restart" /\ ret.res # "raise"
       THEN /\ start_enter(cur, rec, "restart")
            /\ kids' = FALSE
            /\ sent' = <<>>
            /\ UNCHANGED <<busy, applied, opStopped>>
       ELSE /\ pc' = "idle"
            /\ returned
            /\ ends(cur)
            /\ opStopped' = IF caller = "api" /\ ret.res = "true"
                             THEN opStopped \cup {cur} ELSE opStopped
            /\ UNCHANGED rec
    /\ UNCHANGED <<owner, cache, cfg_ok, todo, snap, resp>>
    /\ UNCHANGED hist
    /\ UNCHANGED <<flagged, restores>>
    /\ fresh' = fresh_of(rec', fresh)

\* main.py restart_bot_endpoint 1004-1021
RestartEndpoint(b) ==
    /\ event
    /\ loop_free
    /\ IF update_raises(b)
       THEN UNCHANGED <<rec, cache, pc, cur, caller, child, ret, kids, crashed, busy,
                        sent, opStopped>>
       ELSE /\ crashed' = {}
            /\ begins(b)
            /\ opStopped' = opStopped \ {b}
            /\ IF rec[b].status = "running" /\ rec[b].pid # NoPid
               THEN stop_enter(b, update_status(rec, b, "restarting"), "restart")
               ELSE /\ start_enter(b, update_status(rec, b, "restarting"), "restart")
                    /\ UNCHANGED <<cache, kids, sent>>
    /\ UNCHANGED applied
    /\ UNCHANGED <<owner, cfg_ok, todo, snap, resp, due, monStarts, autoFailed>>
    /\ UNCHANGED <<flagged, restores>>

(***************************************************************************)
(* status and list queries                                                 *)
(***************************************************************************)
    /\ fresh' = fresh_of(rec', fresh)
\* What process.memory_info() gives for a live process: a value, or
\* AccessDenied
Reads == {"ok", "denied"}

\* What process.cpu_percent(interval=None) gives: 0.0, a positive
\* percentage, None, or AccessDenied / TimeoutExpired
CpuReads == {"zero", "positive", "none", "denied"}

\* the answer of get_bot_status: probed says that the liveness of the pid was
\* looked up, failed that a psutil read of the live process raised
StatusResp(b, s, running, cpu, probed, failed) ==
    [bot |-> b, status |-> s, running |-> running, cpu |-> cpu,
     probed |-> probed, failed |-> failed]

\* bot_manager.py 333-351: the cpu_percent that is reported
cpu_value(p, cpu) ==
    IF p \notin cache THEN "zero"
    ELSE IF cpu \in {"none", "denied"} THEN "cached" ELSE cpu

\* bot_manager.py 333-351: the cache after the read
cpu_cache(p, cpu) == IF cpu = "denied" THEN cache ELSE cache \cup {p}

\* lines 353 and 363: memory_info() raises AccessDenied, outside the inner try
memory_fails(mem) == mem = "denied"

\* bot_manager.py get_bot_process_info 312-368 and what main.py 1073-1089
\* answers; an update_bot that raises leaves the handler as an error
process_info(b, cpu, mem) ==
    LET p == rec[b].pid
        failed == cpu = "denied" \/ mem = "denied"
    IN
    IF p = NoPid
    THEN /\ resp' = StatusResp(b, "stopped", FALSE, "null", FALSE, FALSE)
         /\ UNCHANGED <<rec, cache>>
    ELSE IF ~is_process_running(p)
    THEN IF update_raises(b)
         THEN /\ resp' = StatusResp(b, "raise", FALSE, "null", TRUE, FALSE)
              /\ UNCHANGED <<rec, cache>>
         ELSE /\ resp' = StatusResp(b, "stopped", FALSE, "null", TRUE, FALSE)
              /\ rec' = update_bot(rec, b, "stopped", NoPid)
              /\ cache' = cache \ {p}
    ELSE IF memory_fails(mem)
    THEN IF update_raises(b)
         THEN /\ resp' = StatusResp(b, "raise", FALSE, "null", TRUE, TRUE)
              /\ cache' = cpu_cache(p, cpu)
              /\ UNCHANGED rec
         ELSE /\ resp' = StatusResp(b, "stopped", FALSE, "null", TRUE, TRUE)
              /\ rec' = update_bot(rec, b, "stopped", NoPid)
              /\ cache' = cache \ {p}
    ELSE /\ resp' = StatusResp(b, "running", TRUE, cpu_value(p, cpu), TRUE, failed)
         /\ cache' = cpu_cache(p, cpu)
         /\ UNCHANGED rec

\* a cheap path that leaves out the status error
cheap_path_mut(s) == s \notin {"running", "error"}

\* main.py 1055 and 1064: every stored status but running is returned as it is
cheap_path(s) == s # "running"

\* main.py get_bot_status 1045-1090
StatusEndpoint(b) ==
    /\ event
    /\ UNCHANGED quiet
    /\ loop_free
    /\ pc' = "status_done"
    /\ IF cheap_path(rec[b].status)
       THEN /\ resp' = StatusResp(b, rec[b].status, FALSE, "null", FALSE, FALSE)
            /\ UNCHANGED <<rec, cache>>
       ELSE \E cpu \in CpuReads, mem \in Reads : process_info(b, cpu, mem)
    /\ fresh' = fresh \ {b}
    /\ UNCHANGED <<owner, cfg_ok, cur, caller, child, todo, snap, ret, kids>>
    /\ UNCHANGED <<crashed, due, monStarts, autoFailed>>
    /\ UNCHANGED <<flagged, restores, busy>>

\* the response is sent
StatusDone ==
    /\ internal
    /\ UNCHANGED quiet
    /\ pc = "status_done"
    /\ pc' = "idle"
    /\ resp' = NoResp
    /\ UNCHANGED <<rec, owner, cache, cfg_ok, cur, caller, child, todo, snap, ret, kids>>
    /\ UNCHANGED hist
    /\ UNCHANGED <<flagged, restores, busy>>
    /\ fresh' = fresh_of(rec', fresh)

\* a monitor that also takes up the bots it has marked 'error'
dead_running_mut(row) ==
    row.status \in {"running", "error"} /\ ~is_process_running(row.pid)

\* a guard that never looks the pid up
dead_running_blind_mut(row) == row.status = "running" /\ row.pid # NoPid

\* the guard shared by list_bots, monitor_bots and restore_bot_states:
\* the row says running with a pid, and no such process runs
dead_running(row) ==
    row.status = "running" /\ row.pid # NoPid /\ ~is_process_running(row.pid)

\* main.py list_bots 287-300: rows from position i on; an update that raises
\* ends the request
RECURSIVE list_sync(_, _)
list_sync(r, i) ==
    IF i > NumBots THEN r
    ELSE LET b == get_all_bots[i] IN
         IF dead_running(r[b])
         THEN IF update_raises(b) THEN r
              ELSE list_sync(update_bot(r, b, "stopped", NoPid), i + 1)
         ELSE list_sync(r, i + 1)

ListBots ==
    /\ event
    /\ UNCHANGED quiet
    /\ loop_free
    /\ rec' = list_sync(rec, 1)
    /\ UNCHANGED <<owner, cache, cfg_ok>>
    /\ UNCHANGED ctl
    /\ UNCHANGED hist
    /\ UNCHANGED <<flagged, restores, busy>>
    /\ fresh' = fresh_of(rec', fresh)

\* main.py save_bot_file 584-612 writing config.json: any content is accepted
SaveBotFile(b, valid) ==
    /\ event
    /\ UNCHANGED quiet
    /\ loop_free
    /\ cfg_ok' = [cfg_ok EXCEPT ![b] = valid]
    /\ crashed' = {}
    /\ UNCHANGED <<rec, owner, cache, due, monStarts, autoFailed>>
    /\ UNCHANGED ctl
    /\ UNCHANGED <<flagged, restores, busy>>

(***************************************************************************)
(* monitor_bots (main.py 1965-1994)                                        *)
(***************************************************************************)
    /\ fresh' = fresh_of(rec', fresh)
\* lines 1972-1974: the sleep is over, get_all_bots()
MonitorTick ==
    /\ event
    /\ UNCHANGED quiet
    /\ loop_free
    /\ pc' = "mon_loop"
    /\ snap' = rec
    /\ todo' = get_all_bots
    /\ due' = crashed
    /\ monStarts' = [b \in Bots |-> 0]
    /\ UNCHANGED <<rec, owner, cache, cfg_ok, cur, caller, child, ret, crashed, autoFailed>>
    /\ UNCHANGED <<resp, kids>>
    /\ UNCHANGED <<flagged, restores, busy>>
    /\ fresh' = fresh_of(rec', fresh)

\* lines 1975-1984: the next row of the list
MonitorStep ==
    /\ internal
    /\ UNCHANGED quiet
    /\ pc = "mon_loop"
    /\ todo # <<>>
    /\ LET b == Head(todo) IN
       IF dead_running(snap[b])
       THEN IF update_raises(b)
            THEN \* the outer except: the rest of the list is dropped
                 /\ pc' = "idle"
                 /\ todo' = <<>>
                 /\ snap' = NoSnap
                 /\ due' = {}
                 /\ UNCHANGED <<rec, cur, caller, child, ret, crashed, monStarts, busy>>
            ELSE /\ start_enter(b, update_bot(rec, b, "stopped", NoPid), "monitor")
                 /\ todo' = Tail(todo)
                 /\ monStarts' = [monStarts EXCEPT ![b] = @ + 1]
                 /\ due' = due \ {b}
                 /\ crashed' = crashed \ {b}
                 /\ begins(b)
                 /\ UNCHANGED snap
       ELSE /\ todo' = Tail(todo)
            /\ UNCHANGED <<rec, pc, cur, caller, child, ret, snap, crashed, due, monStarts, busy>>
    /\ UNCHANGED <<owner, cache, cfg_ok, autoFailed, resp, kids, flagged, restores>>
    /\ fresh' = fresh_of(rec', fresh)

\* the for loop is over: back to asyncio.sleep(30)
MonitorEnd ==
    /\ internal
    /\ UNCHANGED quiet
    /\ pc = "mon_loop"
    /\ todo = <<>>
    /\ pc' = "idle"
    /\ snap' = NoSnap
    /\ due' = {}
    /\ UNCHANGED <<rec, owner, cache, cfg_ok, cur, caller, child, todo, ret,
                   resp, kids, crashed, monStarts, autoFailed>>
    /\ UNCHANGED <<flagged, restores, busy>>

(***************************************************************************)
(* panel start-up: start_panel.py 15-17 and main.py startup_event          *)
(***************************************************************************)
    /\ fresh' = fresh_of(rec', fresh)
\* a reconciliation that leaves the pid column alone
restore_clears_mut(r, b) == update_status(r, b, "stopped")

\* bot_manager.py 426: update_bot(bot['id'], pid=None, status='stopped')
restore_clears(r, b) == update_bot(r, b, "stopped", NoPid)

\* bot_manager.py restore_bot_states 420-431, rows from position i on
RECURSIVE restore_sync(_, _)
restore_sync(r, i) ==
    IF i > NumBots THEN r
    ELSE LET b == get_all_bots[i] IN
         IF dead_running(r[b])
         THEN restore_sync(restore_clears(r, b), i + 1)
         ELSE restore_sync(r, i + 1)

\* restore_bot_states has no try around update_bot: a raise ends the start-up
restore_raises == \E b \in Bots : dead_running(rec[b]) /\ update_raises(b)

\* bot_manager.py 436: bot.get('auto_start', 0).  The bots table has no
\* auto_start column (database.py 29-43) and update_bot drops the field
\* (180-182), so no row has the key and the default is taken.
auto_start(row) == FALSE

\* bot_manager.py 435-445: the bots of the list read at line 420 that the
\* second loop hands to start_bot
restore_autostart(rows) ==
    {b \in Bots : auto_start(rows[b]) /\ rows[b].status = "stopped"}

\* restore_bot_states runs in start_panel.py before uvicorn.run ("boot1") and
\* again in startup_event ("boot2"); snap holds the list of the first run
\* while the start-up goes on.  restore_autostart is empty, so the body of
\* the second loop (446-456) does not run.
RestoreBotStates ==
    /\ internal
    /\ UNCHANGED quiet
    /\ pc \in {"boot1", "boot2"}
    /\ restore_autostart(rec) = {}
    /\ IF restore_raises
       THEN /\ pc' = "down"
            /\ snap' = NoSnap
            /\ UNCHANGED <<rec, restores>>
       ELSE /\ pc' = IF pc = "boot1" THEN "boot2" ELSE "idle"
            /\ snap' = IF pc = "boot1" THEN rec ELSE NoSnap
            /\ rec' = restore_sync(rec, 1)
            /\ restores' = restores + 1
    /\ UNCHANGED <<owner, cache, cfg_ok, cur, caller, child, todo, ret, resp, kids>>
    /\ UNCHANGED hist
    /\ UNCHANGED <<flagged, busy>>
    /\ fresh' = fresh_of(rec', fresh)

\* the panel process is stopped and started again: the table and the bot
\* processes (own sessions) stay, the in-memory cache is new
PanelRestart ==
    /\ event
    /\ UNCHANGED quiet
    /\ pc \in {"idle", "down"}
    /\ pc' = "boot1"
    /\ cache' = {}
    /\ crashed' = {}
    /\ snap' = NoSnap
    /\ UNCHANGED <<rec, owner, cfg_ok, cur, caller, child, todo, ret,
                   resp, kids, due, monStarts, autoFailed>>
    /\ restores' = 0
    /\ UNCHANGED <<flagged, busy>>

(***************************************************************************)
(* the bots                                                                *)
(***************************************************************************)
    /\ fresh' = fresh_of(rec', fresh)
\* bot processes exit, one or several at a time: on their own, on
\* terminate(), or killed from outside
ProcessExits(S) ==
    /\ event
    /\ UNCHANGED quiet
    /\ S # {}
    /\ \A p \in S : owner[p] # NoBot
    /\ owner' = [p \in Pids |-> IF p \in S THEN NoBot ELSE owner[p]]
    /\ crashed' = crashed \cup
                   {owner[p] : p \in {q \in S :
                       /\ rec[owner[q]].status = "running"
                       /\ rec[owner[q]].pid = q
                       /\ ~(pc \in {"start_grace2", "stop_wait"} /\ child = q)}}
    /\ UNCHANGED <<rec, cache, cfg_ok, due, monStarts, autoFailed>>
    /\ UNCHANGED <<flagged, restores, busy>>
    /\ UNCHANGED ctl

(***************************************************************************)
(* the operator's update request (main.py 378-387)                         *)
(***************************************************************************)
    /\ fresh' = fresh_of(rec', fresh)
\* PUT /api/bots/{id} with auto_start alone: update_bot keeps none of the
\* fields (database.py 180-186) and returns False before it touches the
\* config file or the table; the endpoint answers 404
UpdateBotEndpoint(b, flag) ==
    /\ event
    /\ UNCHANGED quiet
    /\ loop_free
    /\ flagged' = IF flag THEN flagged \cup {b} ELSE flagged \ {b}
    /\ UNCHANGED <<rec, owner, cache, cfg_ok, crashed, due, monStarts, autoFailed,
                   restores, busy>>
    /\ UNCHANGED ctl
    /\ fresh' = fresh_of(rec', fresh)

Next ==
    \/ \E b \in Bots \cup {UnknownBot} : StartEndpoint(b)
    \/ StartInstall
    \/ StartInstallResult
    \/ StartPopen
    \/ StartPoll1
    \/ StartPoll2
    \/ StartDone
    \/ \E b \in Bots \cup {UnknownBot} : StopEndpoint(b)
    \/ StopWait
    \/ StopDone
    \/ \E b \in Bots : RestartEndpoint(b)
    \/ \E b \in Bots : StatusEndpoint(b)
    \/ StatusDone
    \/ ListBots
    \/ \E b \in Bots, valid \in BOOLEAN : SaveBotFile(b, valid)
    \/ MonitorTick
    \/ MonitorStep
    \/ MonitorEnd
    \/ RestoreBotStates
    \/ PanelRestart
    \/ \E p \in Pids : ProcessExits({p})

Spec == Init /\ [][Next]_vars

\* The panel with an operator who sends update requests, and with bot
\* processes that can exit several at a time.
NextOperator ==
    \/ Next
    \/ \E S \in SUBSET Pids : Cardinality(S) > 1 /\ ProcessExits(S)
    \/ \E b \in Bots, flag \in BOOLEAN : UpdateBotEndpoint(b, flag)

SpecOperator == Init /\ [][NextOperator]_vars

\* apply_resource_limits called for a process of the host, with the limits
\* of some row
ApplyResourceLimits(found, cpu_limit, memory_limit_mb, platform) ==
    /\ internal
    /\ applied' = apply_resource_limits(found, cpu_limit, memory_limit_mb, platform)
    /\ UNCHANGED <<rec, owner, cache, cfg_ok, flagged, restores, busy, sent, opStopped>>
    /\ UNCHANGED ctl
    /\ UNCHANGED hist
    /\ fresh' = fresh_of(rec', fresh)

NextLimits ==
    \E found \in BOOLEAN, cpu_limit \in CpuLimits,
       memory_limit_mb \in MemoryLimits, platform \in Platforms :
        ApplyResourceLimits(found, cpu_limit, memory_limit_mb, platform)

\* apply_resource_limits on its own, for every limit a row can hold
SpecLimits == Init /\ [][NextLimits]_vars

\* lines 1970-1974 and 1992-1994: `while True` around the try, so the sleep
\* of monitor_bots (30 s, 60 s after an exception) ends and the next tick
\* begins however many requests and ticks there have been
MonitorWakes ==
    /\ internal
    /\ UNCHANGED quiet
    /\ loop_free
    /\ pc' = "mon_loop"
    /\ snap' = rec
    /\ todo' = get_all_bots
    /\ due' = crashed
    /\ monStarts' = [b \in Bots |-> 0]
    /\ UNCHANGED <<rec, owner, cache, cfg_ok, cur, caller, child, ret, crashed, autoFailed>>
    /\ UNCHANGED <<resp, kids>>
    /\ UNCHANGED <<flagged, restores, busy>>
    /\ fresh' = fresh_of(rec', fresh)

\* the steps inside a handler: a blocking call that returns
HandlerStep ==
    \/ StartInstall
    \/ StartInstallResult
    \/ StartPopen
    \/ StartPoll1
    \/ StartPoll2
    \/ StartDone
    \/ StopWait
    \/ StopDone
    \/ StatusDone
    \/ MonitorStep
    \/ MonitorEnd
    \/ RestoreBotStates

NextForever ==
    \/ Next
    \/ MonitorWakes

\* The panel left running: every blocking call returns, and the monitor's
\* sleep ends whenever the event loop is free.
SpecForever ==
    /\ Init
    /\ [][NextForever]_vars
    /\ WF_vars(HandlerStep)
    /\ WF_vars(MonitorWakes)

(***************************************************************************)
(* Properties                                                              *)
(***************************************************************************)
\* a start_bot call for b made by the start endpoint begins in this step
StartCalled(b) ==
    /\ pc = "idle"
    /\ pc' \in {"start_done", "start_starting"}
    /\ cur' = b

\* the step in which start_bot polls its child after the first sleep
Poll1Step == pc = "start_grace1" /\ pc' # "start_grace1"

\* the step in which start_bot polls its child after the second sleep
Poll2Step == pc = "start_grace2" /\ pc' # "start_grace2"

\* C1: in every reachable state each bot id has at most one live OS process
\* that was spawned for it.
C1_AtMostOneProcess == \A b \in Bots : Cardinality(LiveOf(b)) <= 1

\* C2: a start(id) call made while the record shows running and the process
\* spawned for the bot under the recorded pid is alive spawns no process,
\* leaves the record unchanged and returns (true, null).
C2_IdempotentStart ==
    [][\A b \in Bots :
         (/\ StartCalled(b)
          /\ rec[b].status = "running"
          /\ rec[b].pid # NoPid
          /\ owner[rec[b].pid] = b)
         => (/\ pc' = "start_done"
             /\ ret' = StartRet("ok", "none")
             /\ rec' = rec
             /\ owner' = owner)]_vars

\* the second start has returned without launching, the first start's process lives
C2_Witness ==
    /\ pc = "start_done"
    /\ ret = StartRet("ok", "none")
    /\ child = NoPid
    /\ rec[cur].status = "running"
    /\ LiveOf(cur) = {rec[cur].pid}

\* C3: in every reachable state of every bot record, a non-null pid implies
\* status in {starting, installing, running}.
C3_PidImpliesActive ==
    \A b \in Bots :
        rec[b].pid # NoPid => rec[b].status \in {"starting", "installing", "running"}

\* C4: when a monitor tick has gone through its list, every bot whose running
\* process died before the tick, with only status and list queries in
\* between, has been reconciled and handed to start() by that tick.
C4_MonitorRecovers == (pc = "mon_loop" /\ todo = <<>>) => due = {}

\* C5: the monitor calls start() at most once per bot per tick, and after a
\* failed automatic restart it calls start() for that bot on no later tick
\* until some operation has written status running for it.
C5_OneAutoRestart ==
    /\ [](\A b \in Bots : monStarts[b] <= 1)
    /\ [][\A b \in Bots : monStarts'[b] > monStarts[b] => b \notin autoFailed]_vars

\* a tick after the failed automatic restart has gone through its list
\* without calling start() for the bot
C5_Witness ==
    \E b \in autoFailed : pc = "mon_loop" /\ todo = <<>> /\ monStarts[b] = 0

\* C6: once the monitor has dealt with a failed start() of its own, in this
\* tick, the bot's record has status error and pid null.
C6_FailedAutoRestartIsError ==
    \A b \in Bots :
        (pc = "mon_loop" /\ monStarts[b] = 1 /\ b \in autoFailed)
        => (rec[b].status = "error" /\ rec[b].pid = NoPid)

\* C7: if the child has exited when start() polls it after the first grace
\* period, start() returns (false, message with the exit code) and the record
\* has status error_startup and pid null.
C7_FirstWindowExit ==
    [][(Poll1Step /\ owner[child] # cur)
       => (/\ pc' = "start_done"
           /\ ret' = StartRet("fail", "exit_code")
           /\ rec'[cur] = [status |-> "error_startup", pid |-> NoPid])]_vars

\* start() has returned the first-window failure
C7_Witness ==
    /\ pc = "start_done"
    /\ ret = StartRet("fail", "exit_code")
    /\ owner[child] # cur

\* C8: if the child is alive at the first poll and has exited at the second,
\* start() returns failure and the record is rolled back to status stopped
\* with pid null.
C8_SecondWindowExit ==
    [][(Poll2Step /\ owner[child] # cur)
       => (/\ pc' = "start_done"
           /\ ret'.res = "fail"
           /\ rec'[cur] = [status |-> "stopped", pid |-> NoPid])]_vars

\* start() has returned the second-window failure
C8_Witness ==
    /\ pc = "start_done"
    /\ ret = StartRet("fail", "exit_code_after_startup")
    /\ owner[child] # cur

\* C9 as stated: if the child exits during either grace window, start() fails
\* and the record's status after start returns is error_startup.
C9_EitherWindowErrorStartup ==
    [][((Poll1Step \/ Poll2Step) /\ owner[child] # cur)
       => (/\ pc' = "start_done"
           /\ ret'.res = "fail"
           /\ rec'[cur].status = "error_startup")]_vars

\* C9 as amended: if the child exits during either grace window, start()
\* fails with the exit code in its message and pid null; the status is
\* error_startup after a first-window exit and stopped after a second-window
\* exit.
C9_EitherWindowFails ==
    [][((Poll1Step \/ Poll2Step) /\ owner[child] # cur)
       => (/\ pc' = "start_done"
           /\ ret'.res = "fail"
           /\ ret'.msg \in {"exit_code", "exit_code_after_startup"}
           /\ rec'[cur].pid = NoPid
           /\ rec'[cur].status = IF Poll1Step THEN "error_startup" ELSE "stopped")]_vars

\* start() has failed on a grace-window exit and the status is not error_startup
C9_Witness ==
    /\ pc = "start_done"
    /\ ret.res = "fail"
    /\ ret.msg \in {"exit_code", "exit_code_after_startup"}
    /\ rec[cur].status = "stopped"

\* C10: if requirements.txt exists and the installer fails, start() returns
\* failure, no bot process is spawned, and the record's status is
\* error_startup.
C10_InstallFailure ==
    [][(pc = "start_installing" /\ pc' # "start_launch" /\ pc' # pc)
       => (/\ pc' = "start_done"
           /\ ret'.res = "fail"
           /\ owner' = owner
           /\ child' = NoPid
           /\ rec'[cur].status = "error_startup")]_vars

\* start() has returned the installer's failure
C10_Witness ==
    /\ pc = "start_done"
    /\ ret = StartRet("fail", "install")
    /\ child = NoPid

\* a stop_bot call for b made by the stop endpoint begins in this step
StopCalled(b) ==
    /\ pc = "idle"
    /\ pc' \in {"stop_done", "stop_wait"}
    /\ cur' = b
    /\ caller' = "api"

\* get_bot_status answers a request for b in this step
StatusCalled(b) ==
    /\ pc = "idle"
    /\ pc' = "status_done"
    /\ resp'.bot = b

Cleared == [status |-> "stopped", pid |-> NoPid]

\* C11: if the record has a pid but no such OS process exists, stop(id)
\* returns true, sets pid to null and status to stopped, and sends no
\* terminate or kill signal to any process.
C11_StopOnDeadProcess ==
    [][\A b \in Bots :
         (StopCalled(b) /\ rec[b].pid # NoPid /\ ~is_process_running(rec[b].pid))
         => (/\ pc' = "stop_done"
             /\ ret' = StopRet("true")
             /\ rec'[b] = Cleared
             /\ owner' = owner)]_vars

\* C12: stop(id) on a bot that is unknown or whose record has no pid returns
\* false and leaves the records, every OS process and the CPU sample cache
\* unchanged, whatever the record's status is.
C12_StopWithoutPid ==
    [][\A b \in Bots \cup {UnknownBot} :
         (StopCalled(b) /\ (b \notin Bots \/ rec[b].pid = NoPid))
         => (/\ pc' = "stop_done"
             /\ ret' = StopRet("false")
             /\ rec' = rec
             /\ owner' = owner
             /\ cache' = cache)]_vars

\* stop() has returned false for a record without pid whose status is not
\* stopped, while another bot runs and has a cache entry
C12_Witness ==
    /\ pc = "stop_done"
    /\ caller = "api"
    /\ ret = StopRet("false")
    /\ cur \in Bots
    /\ rec[cur].pid = NoPid
    /\ rec[cur].status # "stopped"
    /\ cache # {}
    /\ \E p \in Pids : owner[p] # NoBot

\* C13: when a stop(id) call on a record whose pid was set is over, the
\* record has pid null and status stopped.
C13_StopAlwaysClears ==
    (pc = "stop_done" /\ child # NoPid) => rec[cur] = Cleared

\* C14: stop(id) returns true only if the process it acted on is no longer
\* alive when it returns.
C14_TrueOnlyIfDead ==
    (pc = "stop_done" /\ child # NoPid /\ ret.res = "true")
    => ~is_process_running(child)

\* C15: no descendant of the process stop(id) acted on is alive when stop
\* returns true.
C15_NoDescendantLeft ==
    (pc = "stop_done" /\ child # NoPid /\ ret.res = "true") => ~kids

\* C16: status(id) on a record whose stored status is starting, installing,
\* restarting, error or error_startup returns that stored status, performs no
\* OS liveness check, and leaves the records and the CPU sample cache
\* unchanged.
C16_CheapPath ==
    [][\A b \in Bots :
         (/\ StatusCalled(b)
          /\ rec[b].status \in {"starting", "installing", "restarting",
                                "error", "error_startup"})
         => (/\ resp' = StatusResp(b, rec[b].status, FALSE, "null", FALSE, FALSE)
             /\ rec' = rec
             /\ cache' = cache)]_vars

\* status() has answered with a stored error status for a record that holds
\* the pid of a live process, without looking the pid up
C16_Witness ==
    /\ pc = "status_done"
    /\ resp.status \in {"error", "error_startup", "restarting"}
    /\ ~resp.probed
    /\ is_process_running(rec[resp.bot].pid)

\* C17: status(id) on a record with stored status running whose pid is not
\* alive returns stopped and leaves the record with status stopped and pid
\* null.
C17_StatusReconciles ==
    [][\A b \in Bots :
         (StatusCalled(b) /\ rec[b].status = "running"
          /\ ~is_process_running(rec[b].pid))
         => (/\ resp'.status = "stopped"
             /\ ~resp'.running
             /\ rec'[b] = Cleared)]_vars

\* C18: the first status(id) call after a start(id) that launched the bot,
\* if it reports CPU usage, reports 0.0.
C18_FirstSampleZero ==
    [][\A b \in Bots :
         (StatusCalled(b) /\ b \in fresh /\ resp'.running)
         => resp'.cpu = "zero"]_vars

\* C19: when a stop(id) call on a record whose pid was p is over, the CPU
\* sample cache has no entry for p.
C19_StopEvictsCache ==
    (pc = "stop_done" /\ child # NoPid) => child \notin cache

\* C20: if a CPU or memory read fails for a bot whose process is alive,
\* status(id) reports running with a CPU value and leaves the record at
\* status running with its pid.
C20_TransientReadFailure ==
    [][\A b \in Bots :
         (/\ StatusCalled(b)
          /\ rec[b].status = "running"
          /\ is_process_running(rec[b].pid)
          /\ resp'.failed)
         => (/\ resp'.status = "running"
             /\ resp'.running
             /\ resp'.cpu \in {"zero", "cached", "positive"}
             /\ rec' = rec)]_vars

\* C21: restart(id) on a running bot sets status restarting before it stops
\* the old process, and no process of the bot is alive at the moment start
\* spawns the new one.
C21_RestartOrder ==
    /\ []((pc = "stop_wait" /\ caller = "restart") => rec[cur].status = "restarting")
    /\ [][(/\ caller = "restart"
           /\ pc \in {"start_starting", "start_launch"}
           /\ pc' = "start_grace1")
          => LiveOf(cur) = {}]_vars

\* a run of restore_bot_states is over in this step
RestoreRuns == pc \in {"boot1", "boot2"} /\ restores' = restores + 1

\* C22: when a run of the Startup Restorer is over, every record that showed
\* running with a dead pid has status stopped and pid null, and the run has
\* called start() for no bot and spawned nothing.
C22_RestoreReconciles ==
    [][RestoreRuns
       => (/\ \A b \in Bots : dead_running(rec[b]) => rec'[b] = Cleared
           /\ \A b \in Bots : rec'[b].status = "running" => rec'[b] = rec[b]
           /\ owner' = owner
           /\ pc' \in {"boot2", "idle"}
           /\ cur' = NoBot)]_vars

\* the first run of the restorer is over and has reconciled a record that
\* showed running with a pid
C22_Witness ==
    /\ pc = "boot2"
    /\ \E b \in Bots :
         snap[b].status = "running" /\ snap[b].pid # NoPid /\ rec[b] = Cleared

\* C23: a run of the Startup Restorer hands to start() every bot that the
\* operator has flagged for auto-start and whose status is stopped.
C23_AutoStartHonoured ==
    [][RestoreRuns
       => \A b \in flagged :
            rec[b].status = "stopped" => b \in restore_autostart(rec)]_vars

\* C24: when the start-up of the panel is over, every bot flagged for
\* auto-start that was stopped is running, but for those whose start() call
\* failed; the restorer makes no start() call, so none has failed.
C24_AutoStartBestEffort ==
    [][(RestoreRuns /\ pc' = "idle")
       => \A b \in flagged :
            rec[b].status = "stopped" => rec'[b].status = "running"]_vars

\* C25: during one start-up of the panel the Startup Restorer runs exactly
\* once, and its run is over before a request or a monitor tick is handled.
C25_RestoreOnce ==
    /\ restores <= 1
    /\ pc \notin {"boot1", "boot2", "down"} => restores >= 1

\* C26: start(id) never raises.
C26_StartNeverRaises == pc = "start_done" => ret.res # "raise"

\* C27: start(id) for an unknown bot id or a missing entry file returns
\* failure, spawns no process, and leaves every record as it was when
\* start was called (restart has written restarting, the monitor stopped and
\* pid null, before they call start).
C27_NotFoundLeavesRecord ==
    [][(/\ pc # "start_done"
        /\ pc' = "start_done"
        /\ ret'.msg \in {"not_found", "no_start_file"})
       => (/\ ret'.res = "fail"
           /\ owner' = owner
           /\ child' = NoPid
           /\ rec' = CASE pc = "mon_loop" -> update_bot(rec, cur', "stopped", NoPid)
                        [] pc = "idle" /\ caller' = "restart" ->
                             update_status(rec, cur', "restarting")
                        [] OTHER -> rec)]_vars

\* the monitor's start() for a crashed bot has returned on a missing start
\* file, and the record is as the monitor wrote it
C27_Witness ==
    /\ pc = "start_done"
    /\ ret = StartRet("fail", "no_start_file")
    /\ caller = "monitor"
    /\ rec[cur] = Cleared

\* C28: for a single bot id, at most one of start, stop, restart and crash
\* recovery is in progress at any time.
C28_OneTransitionPerBot == \A b \in Bots : busy[b] <= 1

\* a crash recovery is in progress for a bot
C28_Witness ==
    /\ pc = "start_grace1"
    /\ caller = "monitor"
    /\ busy[cur] = 1

\* C29: when a monitor tick ends, no bot of its list that showed running
\* with a dead pid has been left out.
C29_MonitorIsolatesFailures ==
    [][(pc = "mon_loop" /\ pc' = "idle")
       => \A i \in 2..Len(todo) : ~dead_running(snap[todo[i]])]_vars

\* C30: every key of the CPU sample cache is the pid of some bot record.
C30_CacheKeysAreRecordPids ==
    \A p \in cache : \E b \in Bots : rec[b].pid = p

\* the monitor visits the next row of its list in this step
MonitorVisits(b) ==
    pc = "mon_loop" /\ todo # <<>> /\ Head(todo) = b /\ todo' # todo

\* C31: a Crash Monitor tick leaves unchanged every record whose status is
\* not running, whose pid is null, or whose process is alive, and calls
\* start() for none of them; while the tick works on one bot, the records of
\* the other bots stay as they are.
C31_MonitorFrame ==
    [][(pc = "mon_loop" \/ caller = "monitor")
       => /\ \A b \in Bots :
               (/\ MonitorVisits(b)
                /\ \/ rec[b].status # "running"
                   \/ rec[b].pid = NoPid
                   \/ is_process_running(rec[b].pid))
               => (/\ rec' = rec
                   /\ owner' = owner
                   /\ pc' = "mon_loop"
                   /\ monStarts' = monStarts)
          /\ \A b \in Bots :
               monStarts'[b] > monStarts[b] => rec[b].status = "running"
          /\ \A b \in Bots :
               (b # cur /\ b # cur') => rec'[b] = rec[b]]_vars

\* a tick has gone through its list and has passed over a bot in an error
\* status and a bot whose process is alive
C31_Witness ==
    /\ pc = "mon_loop"
    /\ todo = <<>>
    /\ \E a, b \in Bots :
         /\ rec[a].status = "running"
         /\ is_process_running(rec[a].pid)
         /\ rec[b].status \in {"error", "error_startup"}
         /\ monStarts[a] = 0
         /\ monStarts[b] = 0

\* C32: the Crash Monitor goes on ticking, so that every record that shows
\* running with a dead pid is reconciled at some time, unless the panel has
\* gone down.
C32_MonitorReconcilesEventually ==
    \A b \in Bots :
        dead_running(rec[b]) ~> (~dead_running(rec[b]) \/ pc = "down")

\* C33: stop(id) sends the kill only after it has sent terminate and the
\* 5-second wait has ended with the process still alive; a process that has
\* exited within the wait is sent no kill.
C33_KillAfterWait ==
    [][/\ sent' \in {<<>>, <<"terminate">>, <<"terminate", "kill">>}
       /\ (pc = "stop_wait" /\ pc' = "stop_done")
          => (/\ sent = <<"terminate">>
              /\ IF is_process_running(child)
                 THEN sent' = <<"terminate", "kill">>
                 ELSE sent' = sent /\ owner' = owner)]_vars

\* stop() has returned true for a process that exited within the wait, and
\* terminate is the only signal it has sent
C33_Witness ==
    /\ pc = "stop_done"
    /\ ret = StopRet("true")
    /\ sent = <<"terminate">>
    /\ ~is_process_running(child)

\* C34: during a start(id) that has passed the start-file check the status
\* is written starting first, installing only from starting, the process is
\* spawned from starting (no requirements.txt) or after the installer has
\* succeeded, and status running is written together with the pid of the
\* child only when the first poll has found the child alive.
C34_StartOrder ==
    [][/\ (pc' = "start_starting" /\ pc # "start_starting")
            => rec'[cur'].status = "starting"
       /\ (pc' = "start_installing" /\ pc # "start_installing")
            => (/\ pc = "start_starting"
                /\ rec[cur].status = "starting"
                /\ rec'[cur].status = "installing"
                /\ owner' = owner)
       /\ (pc' = "start_launch" /\ pc # "start_launch")
            => (/\ pc = "start_installing"
                /\ rec'[cur].status = "installing"
                /\ owner' = owner)
       /\ (pc' = "start_grace1" /\ pc # "start_grace1")
            => (/\ \/ pc = "start_starting" /\ rec[cur].status = "starting"
                   \/ pc = "start_launch" /\ rec[cur].status = "installing"
                /\ rec' = rec)
       /\ \A b \in Bots :
            (rec'[b].status = "running" /\ rec'[b] # rec[b])
            => (/\ pc = "start_grace1"
                /\ b = cur
                /\ owner[child] = cur
                /\ rec'[b].pid = child)]_vars

\* the installer has succeeded: the status is installing and no process has
\* been spawned yet
C34_Witness ==
    /\ pc = "start_launch"
    /\ rec[cur].status = "installing"
    /\ child = NoPid
    /\ LiveOf(cur) = {}

\* C35: every timestamp a transition writes is stored in the row: the UPDATE
\* of a start that launched the bot sets started_at and last_started_at, that
\* of a second-window death last_crashed_at, that of a stop that acted on a
\* live process last_stopped_at.
C35_TimestampsStored ==
    /\ (pc = "start_done" /\ ret = StartRet("ok", "none") /\ child # NoPid)
         => {"started_at", "last_started_at"} \subseteq kept(start_kwargs)
    /\ (pc = "start_done" /\ ret = StartRet("fail", "exit_code_after_startup"))
         => "last_crashed_at" \in kept(rollback_kwargs)
    /\ (pc = "stop_done" /\ ret = StopRet("true") /\ sent # <<>>)
         => "last_stopped_at" \in kept(stop_kwargs)

\* C36: on POSIX apply_resource_limits asks for niceness 10 for a cpu_limit
\* below 50, 5 from 50 to below 75 and 0 from 75 on, whatever the memory
\* limit is.
C36_NiceBuckets ==
    applied # NoApplied
    => (/\ applied[1] < 50 => applied[3] = 10
        /\ (50 <= applied[1] /\ applied[1] < 75) => applied[3] = 5
        /\ 75 <= applied[1] => applied[3] = 0)

\* the call was made for the lowest limit of the medium bucket
C36_Witness ==
    /\ applied # NoApplied
    /\ applied[1] = 50
    /\ applied[3] = 5

Transient == {"starting", "installing", "restarting"}

\* C37: when start or stop has returned a result to the endpoint or to the
\* monitor, the status of the record is none of starting, installing,
\* restarting.
C37_NoTransientLeft ==
    /\ (pc = "start_done" /\ ret.res \in {"ok", "fail"} /\ cur \in Bots)
         => rec[cur].status \notin Transient
    /\ (pc = "stop_done" /\ caller = "api" /\ ret.res \in {"true", "false"}
           /\ cur \in Bots)
         => rec[cur].status \notin Transient

\* C38: when start(id) returns (true, null), the pid of the record is the
\* pid of a live process that was spawned for bot id.
C38_TrueMeansOwnProcess ==
    [][(pc # "start_done" /\ pc' = "start_done" /\ ret' = StartRet("ok", "none"))
       => (/\ rec'[cur'].pid # NoPid
           /\ owner'[rec'[cur'].pid] = cur')]_vars

\* C39: the monitor calls start() for a bot only if the stored status of the
\* bot is running at that moment, with a pid that no process holds; a bot
\* whose stop request has returned true is stopped, and the monitor calls
\* start() for it on no tick until a start or restart request for it is
\* served.
C39_StoppedStaysStopped ==
    [][/\ (pc' = "stop_done" /\ caller' = "api" /\ ret'.res = "true")
          => rec'[cur'].status = "stopped"
       /\ monStarts' # monStarts
          => \A b \in Bots :
                monStarts'[b] > monStarts[b]
                => (/\ rec[b].status = "running"
                    /\ rec[b].pid # NoPid
                    /\ ~is_process_running(rec[b].pid)
                    /\ b \notin opStopped)]_vars

\* a tick has gone through its list, has restarted a crashed bot, and has
\* left alone a bot the operator stopped
C39_Witness ==
    /\ pc = "mon_loop"
    /\ todo = <<>>
    /\ \E a, b \in Bots :
         /\ b \in opStopped
         /\ monStarts[b] = 0
         /\ rec[b] = Cleared
         /\ monStarts[a] = 1

====
